---- MODULE Spec2Model ----
(***************************************************************************)
(* A model of utils/util.py: bbox_overlaps (pairwise IoU / IoF of two box  *)
(* tensors), the AverageMeter accumulator and img_preprocess2 (resize or   *)
(* letterbox an image and remap its boxes).                                *)
(*                                                                         *)
(* Numbers.  Box coordinates and image dimensions are integers.  A         *)
(* quotient is kept exact as a record [kind, n, d]: kind "num" is the      *)
(* rational n/d (d # 0), "nan" is the result of 0/0 and "inf" of x/0 in    *)
(* tensor (IEEE) division.  Floating-point rounding is not modelled.       *)
(***************************************************************************)
EXTENDS Integers, Sequences, FiniteSets, TLC

VARIABLES
    \* bbox_overlaps: arguments, position, locals and return value
    bboxes1, bboxes2, mode, is_aligned, opc, overlap, ious,
    \* AverageMeter: fields, last get_avg() result, updates since last reset
    avg, sum, count, ret, log,
    \* img_preprocess2: arguments, position, locals and return value
    image_shape, target_shape, bboxes, correct_box, keepratio, ppc,
    resized, paste, image, boxes_out

overlapVars == <<bboxes1, bboxes2, mode, is_aligned, opc, overlap, ious>>
meterVars   == <<avg, sum, count, ret, log>>
preVars     == <<image_shape, target_shape, bboxes, correct_box, keepratio,
                 ppc, resized, paste, image, boxes_out>>
vars        == <<overlapVars, meterVars, preVars>>

None == [set |-> FALSE]
Some(v) == [set |-> TRUE, val |-> v]

----------------------------------------------------------------------------
(* Exact quotients *)

NaN == [kind |-> "nan", n |-> 0, d |-> 0]
Inf(a) == [kind |-> "inf", n |-> IF a > 0 THEN 1 ELSE -1, d |-> 0]
Rat(a, b) == [kind |-> "num", n |-> a, d |-> b]

\* tensor / tensor: never raises, 0/0 is nan and x/0 is +-inf
TensorDiv(a, b) ==
    IF b = 0 THEN (IF a = 0 THEN NaN ELSE Inf(a)) ELSE Rat(a, b)

RatEq(p, q) == p.kind = "num" /\ q.kind = "num" /\ p.n * q.d = q.n * p.d
IsZero(p) == p.kind = "num" /\ p.n = 0
Abs(x) == IF x < 0 THEN -x ELSE x
Sign(x) == IF x < 0 THEN -1 ELSE 1
\* p <= q for two rationals
RatLe(p, q) == p.n * Sign(p.d) * Abs(q.d) <= q.n * Sign(q.d) * Abs(p.d)

----------------------------------------------------------------------------
(* bbox_overlaps *)

Max(a, b) == IF a >= b THEN a ELSE b
Min(a, b) == IF a <= b THEN a ELSE b
\* variant: the clamp is missing
ClampMissing(x) == x
ClampMin0(x) == IF x < 0 THEN 0 ELSE x

\* torch.max(b1[:2], b2[:2]) and torch.min(b1[2:], b2[2:]) for one pair
Lt(b1, b2) == <<Max(b1[1], b2[1]), Max(b1[2], b2[2])>>
Rb(b1, b2) == <<Min(b1[3], b2[3]), Min(b1[4], b2[4])>>
\* variant: extents taken without the inclusive + 1
WhExclusive(b1, b2) == <<ClampMin0(Rb(b1, b2)[1] - Lt(b1, b2)[1]),
                         ClampMin0(Rb(b1, b2)[2] - Lt(b1, b2)[2])>>
\* wh = (rb - lt + 1).clamp(min=0)
Wh(b1, b2) == <<ClampMin0(Rb(b1, b2)[1] - Lt(b1, b2)[1] + 1),
                ClampMin0(Rb(b1, b2)[2] - Lt(b1, b2)[2] + 1)>>
\* overlap = wh[0] * wh[1]
PairOverlap(b1, b2) == Wh(b1, b2)[1] * Wh(b1, b2)[2]
\* variant: area taken without the inclusive + 1
AreaExclusive(b) == (b[3] - b[1]) * (b[4] - b[2])
\* (x2 - x1 + 1) * (y2 - y1 + 1)
Area(b) == (b[3] - b[1] + 1) * (b[4] - b[2] + 1)

\* one entry of ious; the else branch serves every mode other than 'iou'
PairIou(b1, b2, m) ==
    IF m = "iou"
    THEN TensorDiv(PairOverlap(b1, b2),
                   Area(b1) + Area(b2) - PairOverlap(b1, b2))
    ELSE TensorDiv(PairOverlap(b1, b2), Area(b1))

\* variant: the empty result always has one column
NewTensorColumn(r, c) ==
    [shape |-> <<r, 1>>, data |-> [i \in 1..r |-> [j \in 1..1 |-> NaN]]]
\* bboxes1.new(r, c): an r x c tensor; it has no element when r * c = 0
NewTensor(r, c) ==
    [shape |-> <<r, c>>, data |-> [i \in 1..r |-> [j \in 1..c |-> NaN]]]

\* is_aligned branch: wh[:, 0] * wh[:, 1] and ious are one-dimensional
AlignedOverlap(s1, s2) == [i \in 1..Len(s1) |-> PairOverlap(s1[i], s2[i])]
AlignedIous(s1, s2, m) ==
    [shape |-> <<Len(s1)>>,
     data  |-> [i \in 1..Len(s1) |-> PairIou(s1[i], s2[i], m)]]

\* broadcast branch: [rows, cols]
CrossOverlap(s1, s2) ==
    [i \in 1..Len(s1) |-> [j \in 1..Len(s2) |-> PairOverlap(s1[i], s2[j])]]
CrossIous(s1, s2, m) ==
    [shape |-> <<Len(s1), Len(s2)>>,
     data  |-> [i \in 1..Len(s1) |->
                  [j \in 1..Len(s2) |-> PairIou(s1[i], s2[j], m)]]]

\* assert mode in ['iou', 'iof']
ModeAssert(m) == m \in {"iou", "iof"}

\* variant: the length check is skipped when a set is empty
AlignedAssertNonEmpty(aligned, rows, cols) ==
    (aligned /\ rows * cols # 0) => rows = cols
\* if is_aligned: assert rows == cols
AlignedAssert(aligned, rows, cols) == aligned => rows = cols

BboxOverlaps ==
    /\ opc = "call"
    /\ LET rows == Len(bboxes1)
           cols == Len(bboxes2)
       IN  IF ~ModeAssert(mode)
           THEN /\ opc' = "AssertionError"
                /\ UNCHANGED <<overlap, ious>>
           ELSE IF ~AlignedAssert(is_aligned, rows, cols)
           THEN /\ opc' = "AssertionError"
                /\ UNCHANGED <<overlap, ious>>
           ELSE IF rows * cols = 0
           THEN /\ opc' = "return"
                /\ ious' = Some(IF is_aligned THEN NewTensor(rows, 1)
                                              ELSE NewTensor(rows, cols))
                /\ UNCHANGED overlap
           ELSE IF is_aligned
           THEN /\ opc' = "return"
                /\ overlap' = Some(AlignedOverlap(bboxes1, bboxes2))
                /\ ious' = Some(AlignedIous(bboxes1, bboxes2, mode))
           ELSE /\ opc' = "return"
                /\ overlap' = Some(CrossOverlap(bboxes1, bboxes2))
                /\ ious' = Some(CrossIous(bboxes1, bboxes2, mode))
    /\ UNCHANGED <<bboxes1, bboxes2, mode, is_aligned>>
    /\ UNCHANGED <<meterVars, preVars>>

----------------------------------------------------------------------------
(* AverageMeter *)

\* bounds: updates between two resets, largest temp_sum, largest n
MaxUpdates == 3
MaxInc == 2
MaxN == 2

\* variant: the count restarts at 0
ResetZero ==
    /\ avg' = 0
    /\ sum' = 0
    /\ count' = 0
    /\ log' = << >>
    /\ ret' = None
    /\ UNCHANGED <<overlapVars, preVars>>

\* every method call returns; reset() and update() return None
Reset ==
    /\ avg' = 0
    /\ sum' = 0
    /\ count' = 1
    /\ log' = << >>
    /\ ret' = None
    /\ UNCHANGED <<overlapVars, preVars>>

Update(temp_sum, n) ==
    /\ Len(log) < MaxUpdates
    /\ sum' = sum + temp_sum
    /\ count' = count + n
    /\ log' = Append(log, <<temp_sum, n>>)
    /\ ret' = None
    /\ UNCHANGED avg
    /\ UNCHANGED <<overlapVars, preVars>>

\* float(self.sum) / float(self.count)
FloatDiv(a, b) ==
    IF b = 0 THEN [kind |-> "ZeroDivisionError", n |-> 0, d |-> 0]
             ELSE Rat(a, b)

GetAvg ==
    /\ ret' = Some(FloatDiv(sum, count))
    /\ UNCHANGED <<avg, sum, count, log>>
    /\ UNCHANGED <<overlapVars, preVars>>

----------------------------------------------------------------------------
(* img_preprocess2 *)

\* int(x) of a quotient n/d: truncation toward zero
IntTrunc(n, d) == Sign(n) * Sign(d) * (Abs(n) \div Abs(d))

\* min(1.0 * w_target / w_org, 1.0 * h_target / h_org), dimensions positive
ResizeRatio(h_org, w_org, h_target, w_target) ==
    IF w_target * h_org <= h_target * w_org THEN Rat(w_target, w_org)
                                            ELSE Rat(h_target, h_org)

\* cv2.resize(src, dsize): dsize is (width, height), the result has
\* dsize[1] rows and dsize[0] columns; an empty dsize is rejected
Cv2Resize(dsize) ==
    IF dsize[1] <= 0 \/ dsize[2] <= 0 THEN None
                                      ELSE Some(<<dsize[2], dsize[1], 3>>)

\* length of the slice a[start:stop] of an axis of length dim, 0 <= start
SliceLen(start, stop, dim) ==
    Max(0, Min(stop, dim) - Min(start, dim))

\* bboxes[:, [0, 2]] * rx + dx and bboxes[:, [1, 3]] * ry + dy
ScaleBoxes(bs, rx, dx, ry, dy) ==
    [k \in 1..Len(bs) |->
        <<Rat(bs[k][1] * rx.n + dx * rx.d, rx.d),
          Rat(bs[k][2] * ry.n + dy * ry.d, ry.d),
          Rat(bs[k][3] * rx.n + dx * rx.d, rx.d),
          Rat(bs[k][4] * ry.n + dy * ry.d, ry.d)>>]

\* round(x) of a quotient n/d >= 0: to nearest, ties to even
RoundHalfEven(n, d) ==
    LET q == n \div d
        r == n % d
    IN  IF 2 * r < d THEN q
        ELSE IF 2 * r > d THEN q + 1
        ELSE IF q % 2 = 0 THEN q ELSE q + 1

\* variant: the resized dimension is rounded
ResizeDimRounded(ratio, org) == RoundHalfEven(ratio.n * org, ratio.d)
\* resize_w = int(resize_ratio * w_org)
ResizeDim(ratio, org) == IntTrunc(ratio.n * org, ratio.d)
\* variant: the offset is rounded up
PadOffsetCeil(target, resize) == (target - resize + 1) \div 2
\* dw = int((w_target - resize_w) / 2)
PadOffset(target, resize) == IntTrunc(target - resize, 2)

ImgPreprocess2 ==
    /\ ppc = "call"
    /\ LET h_target == target_shape[1]
           w_target == target_shape[2]
           h_org == image_shape[1]
           w_org == image_shape[2]
       IN  IF ~keepratio
           THEN LET ratio_w == Rat(w_target, w_org)
                    ratio_h == Rat(h_target, h_org)
                    out == Cv2Resize(target_shape)
                IN  IF ~out.set
                    THEN /\ ppc' = "cv2.error"
                         /\ UNCHANGED <<resized, paste, image, boxes_out>>
                    ELSE /\ ppc' = "return"
                         /\ image' = Some(out.val)
                         /\ boxes_out' =
                              IF correct_box
                              THEN Some(ScaleBoxes(bboxes, ratio_w, 0,
                                                   ratio_h, 0))
                              ELSE None
                         /\ UNCHANGED <<resized, paste>>
           ELSE LET resize_ratio ==
                        ResizeRatio(h_org, w_org, h_target, w_target)
                    resize_w == ResizeDim(resize_ratio, w_org)
                    resize_h == ResizeDim(resize_ratio, h_org)
                    image_resized == Cv2Resize(<<resize_w, resize_h>>)
                    dw == PadOffset(w_target, resize_w)
                    dh == PadOffset(h_target, resize_h)
                IN  IF ~image_resized.set
                    THEN /\ ppc' = "cv2.error"
                         /\ UNCHANGED <<resized, paste, image, boxes_out>>
                    ELSE IF \/ SliceLen(dh, resize_h + dh, h_target)
                                  # image_resized.val[1]
                            \/ SliceLen(dw, resize_w + dw, w_target)
                                  # image_resized.val[2]
                    THEN /\ ppc' = "ValueError"
                         /\ resized' = Some(image_resized.val)
                         /\ UNCHANGED <<paste, image, boxes_out>>
                    ELSE /\ ppc' = "return"
                         /\ resized' = Some(image_resized.val)
                         /\ paste' = Some([top |-> dh, bottom |-> resize_h + dh,
                                           left |-> dw, right |-> resize_w + dw])
                         /\ image' = Some(<<h_target, w_target, 3>>)
                         /\ boxes_out' =
                              IF correct_box
                              THEN Some(ScaleBoxes(bboxes, resize_ratio, dw,
                                                   resize_ratio, dh))
                              ELSE None
    /\ UNCHANGED <<image_shape, target_shape, bboxes, correct_box, keepratio>>
    /\ UNCHANGED <<overlapVars, meterVars>>

----------------------------------------------------------------------------
(* Initial states and specifications *)

SeqsUpTo(S, n) == UNION {[1..k -> S] : k \in 0..n}

\* bbox_overlaps has not been called
OverlapIdle ==
    /\ bboxes1 = << >> /\ bboxes2 = << >> /\ mode = "iou"
    /\ is_aligned = FALSE /\ opc = "idle" /\ overlap = None /\ ious = None

\* no AverageMeter has been constructed
MeterIdle ==
    /\ avg = 0 /\ sum = 0 /\ count = 1 /\ ret = None /\ log = << >>

\* img_preprocess2 has not been called
PreIdle ==
    /\ image_shape = <<1, 1, 3>> /\ target_shape = <<1, 1>>
    /\ bboxes = << >> /\ correct_box = FALSE /\ keepratio = FALSE
    /\ ppc = "idle" /\ resized = None /\ paste = None /\ image = None
    /\ boxes_out = None

\* Inputs of bbox_overlaps.  Two families: at most one box per set, the box
\* anywhere on the grid 0..MaxCoord (inverted and empty boxes included); and
\* up to MaxLen boxes per set, drawn from the boxes of the docstring example.
MaxCoord == 2
MaxLen == 3
Coords == 0..MaxCoord
GridBoxes == {<<x1, y1, x2, y2>> : x1 \in Coords, y1 \in Coords,
                                   x2 \in Coords, y2 \in Coords}
ExampleA == <<<<0, 0, 10, 10>>, <<10, 10, 20, 20>>, <<32, 32, 38, 42>>>>
ExampleB == <<<<0, 0, 10, 20>>, <<0, 10, 10, 19>>, <<10, 10, 20, 20>>>>
Range(s) == {s[k] : k \in 1..Len(s)}
AtMostOne(S) == {<< >>} \cup {<<b>> : b \in S}
Modes == {"iou", "iof", "giou"}

OverlapInputs ==
    (AtMostOne(GridBoxes) \X AtMostOne(GridBoxes))
        \cup (SeqsUpTo(Range(ExampleA), MaxLen)
                \X SeqsUpTo(Range(ExampleB), MaxLen))

InitOverlap ==
    /\ \E inputs \in OverlapInputs :
          bboxes1 = inputs[1] /\ bboxes2 = inputs[2]
    /\ mode \in Modes
    /\ is_aligned \in BOOLEAN
    /\ opc = "call"
    /\ overlap = None
    /\ ious = None
    /\ MeterIdle
    /\ PreIdle

NextOverlap == BboxOverlaps

SpecOverlap == InitOverlap /\ [][NextOverlap]_vars

\* AverageMeter(): __init__ calls reset()
InitMeter ==
    /\ avg = 0 /\ sum = 0 /\ count = 1 /\ ret = None /\ log = << >>
    /\ OverlapIdle
    /\ PreIdle

NextMeter ==
    \/ Reset
    \/ \E s \in -1..MaxInc, n \in 0..MaxN : Update(s, n)
    \/ GetAvg

SpecMeter == InitMeter /\ [][NextMeter]_vars

\* Inputs of img_preprocess2: dimensions 1..MaxDim and those of the 100 x 50
\* example; at most MaxBoxes boxes, the example's or a small box near the
\* origin whose x and y extents differ.
MaxDim == 4
MaxBoxes == 1
MaxBoxCoord == 0
ExampleDims == {50, 100}
Dims == (1..MaxDim) \cup ExampleDims
ExampleBox == <<10, 10, 20, 20>>
PreBoxes ==
    {<<x, y, x + 1, y + 2>> : x \in 0..MaxBoxCoord, y \in 0..MaxBoxCoord}
        \cup {ExampleBox}

InitPre ==
    /\ image_shape \in {<<h, w, 3>> : h \in Dims, w \in Dims}
    /\ target_shape \in Dims \X Dims
    /\ bboxes \in SeqsUpTo(PreBoxes, MaxBoxes)
    /\ correct_box \in BOOLEAN
    /\ keepratio \in BOOLEAN
    /\ ppc = "call"
    /\ resized = None /\ paste = None /\ image = None /\ boxes_out = None
    /\ OverlapIdle
    /\ MeterIdle

NextPre == ImgPreprocess2

SpecPre == InitPre /\ [][NextPre]_vars

----------------------------------------------------------------------------
(* Properties of bbox_overlaps *)

Rows == Len(bboxes1)
Cols == Len(bboxes2)
\* the pairs an invocation compares, and the entry it returns for each
Pairs == IF is_aligned THEN {<<i, i>> : i \in 1..Rows}
                       ELSE (1..Rows) \X (1..Cols)
Entry(i, j) == IF is_aligned THEN ious.val.data[i] ELSE ious.val.data[i][j]
OverlapAt(i, j) == IF is_aligned THEN overlap.val[i] ELSE overlap.val[i][j]
Computed == opc = "return" /\ overlap.set

Degenerate(b) == b[3] < b[1] \/ b[4] < b[2]
WellFormed(b) == b[1] <= b[3] /\ b[2] <= b[4]
InclusiveArea(b) == (b[3] - b[1] + 1) * (b[4] - b[2] + 1)
\* max(0, min(hi) - max(lo) + 1) on one axis
AxisOverlap(lo1, hi1, lo2, hi2) ==
    LET lo == IF lo1 > lo2 THEN lo1 ELSE lo2
        hi == IF hi1 < hi2 THEN hi1 ELSE hi2
    IN  IF hi - lo + 1 > 0 THEN hi - lo + 1 ELSE 0
Intersection(b1, b2) ==
    AxisOverlap(b1[1], b1[3], b2[1], b2[3])
        * AxisOverlap(b1[2], b1[4], b2[2], b2[4])
Denominator(b1, b2) ==
    IF mode = "iou"
    THEN InclusiveArea(b1) + InclusiveArea(b2) - Intersection(b1, b2)
    ELSE InclusiveArea(b1)

\* C1: with is_aligned the result has shape (m, 1), for m >= 1 as for m = 0.
\* The code returns a one-dimensional tensor of shape (m,) when m >= 1.
C1_AlignedShape ==
    (opc = "return" /\ is_aligned) => ious.val.shape = <<Rows, 1>>

\* C4 as claimed: a pair with a degenerate or inverted rectangle yields zero.
C4_DegenerateYieldsZero ==
    Computed =>
        \A p \in Pairs :
            (Degenerate(bboxes1[p[1]]) \/ Degenerate(bboxes2[p[2]]))
                => IsZero(Entry(p[1], p[2]))

\* C4 as amended: for a pair with a degenerate or inverted rectangle the call
\* returns, the intersection area is 0, and the entry is zero when the
\* denominator is not zero and not-a-number (0/0) when it is.
C4_DegenerateZeroOrNaN ==
    (opc # "call" /\ ModeAssert(mode) /\ AlignedAssert(is_aligned, Rows, Cols)
        /\ Rows * Cols # 0)
    => /\ Computed
       /\ \A p \in Pairs :
            (Degenerate(bboxes1[p[1]]) \/ Degenerate(bboxes2[p[2]]))
                => /\ OverlapAt(p[1], p[2]) = 0
                   /\ IF Denominator(bboxes1[p[1]], bboxes2[p[2]]) # 0
                      THEN IsZero(Entry(p[1], p[2]))
                      ELSE Entry(p[1], p[2]) = NaN

\* an inverted box of negative area against a proper box
C4_Witness ==
    /\ Computed
    /\ bboxes1 = <<<<2, 0, 0, 1>>>>
    /\ bboxes2 = <<<<0, 0, 1, 1>>>>
    /\ IsZero(ious.val.data[1][1])

\* C5: for well-formed rectangles the intersection is between 0 and each of
\* area1, area2 and the union, the denominator is positive, and the entry
\* is a number in [0, 1].
C5_UnitInterval ==
    Computed =>
        \A p \in Pairs :
            LET b1 == bboxes1[p[1]]
                b2 == bboxes2[p[2]]
                in == OverlapAt(p[1], p[2])
                e  == Entry(p[1], p[2])
                a1 == (b1[3] - b1[1] + 1) * (b1[4] - b1[2] + 1)
                a2 == (b2[3] - b2[1] + 1) * (b2[4] - b2[2] + 1)
            IN  (WellFormed(b1) /\ WellFormed(b2))
                    => /\ 0 <= in /\ in <= a1 /\ in <= a2
                       /\ in <= a1 + a2 - in
                       /\ (IF mode = "iou" THEN a1 + a2 - in ELSE a1) > 0
                       /\ e.kind = "num" /\ e.d > 0
                       /\ 0 <= e.n /\ e.n <= e.d

\* two well-formed boxes that overlap in part
C5_Witness ==
    /\ Computed
    /\ \E p \in Pairs :
         /\ WellFormed(bboxes1[p[1]]) /\ WellFormed(bboxes2[p[2]])
         /\ 0 < Entry(p[1], p[2]).n
         /\ Entry(p[1], p[2]).n < Entry(p[1], p[2]).d

\* C6: not aligned and a set empty: a normal return of shape (|set1|, |set2|)
\* and no intersection is computed.
C6_EmptyShape ==
    (opc # "call" /\ ~is_aligned /\ ModeAssert(mode) /\ Rows * Cols = 0)
        => /\ opc = "return"
           /\ ious.set
           /\ ious.val.shape = <<Rows, Cols>>
           /\ Len(ious.val.data) = Rows
           /\ \A i \in 1..Rows : Len(ious.val.data[i]) = Cols
           /\ ~overlap.set

C6_Witness ==
    /\ opc = "return" /\ ~is_aligned
    /\ ((Rows = 0 /\ Cols = 3) \/ (Rows = 2 /\ Cols = 0))
    /\ ious.val.shape = <<Rows, Cols>>

\* the docstring's matrix in ten-thousandths
ExampleDoc == <<<<5238, 500, 41>>, <<323, 452, 10000>>, <<0, 0, 0>>>>
\* |e - t/10000| <= 1/1000
Within1e3(e, t) ==
    e.kind = "num" /\ e.d > 0 /\ Abs(10000 * e.n - t * e.d) <= 10 * e.d

\* every entry of the cross product is I / (area1 + area2 - I); the example
\* gives the matrix exact, which agrees with the docstring's within 1e-3
IouMatrixIs(exact) ==
    (opc = "return" /\ ~is_aligned /\ mode = "iou" /\ Rows * Cols # 0)
    => /\ ious.val.shape = <<Rows, Cols>>
       /\ \A i \in 1..Rows : \A j \in 1..Cols :
            LET in  == Intersection(bboxes1[i], bboxes2[j])
                den == InclusiveArea(bboxes1[i]) + InclusiveArea(bboxes2[j])
                          - in
            IN  IF den # 0 THEN RatEq(ious.val.data[i][j], Rat(in, den))
                           ELSE ious.val.data[i][j].kind # "num"
       /\ (bboxes1 = ExampleA /\ bboxes2 = ExampleB)
            => \A i \in 1..3 : \A j \in 1..3 :
                 /\ RatEq(ious.val.data[i][j], exact[i][j])
                 /\ Within1e3(ious.val.data[i][j], ExampleDoc[i][j])

\* C7 as claimed: entry [2, 2] of the example is 11/243.
C7_ExampleAsClaimed ==
    IouMatrixIs(<<<<Rat(121, 231), Rat(11, 220), Rat(1, 241)>>,
                  <<Rat(11, 341), Rat(11, 243), Rat(1, 1)>>,
                  <<Rat(0, 1), Rat(0, 1), Rat(0, 1)>>>>)

\* C7 as amended: in unaligned 'iou' mode every entry [i, j] of the m x n
\* cross product is I / (area1_i + area2_j - I); the example gives
\* [[121/231, 11/220, 1/241], [11/341, 10/221, 1], [0, 0, 0]], within 1e-3
\* of the docstring's matrix.
C7_ExampleExact ==
    IouMatrixIs(<<<<Rat(121, 231), Rat(11, 220), Rat(1, 241)>>,
                  <<Rat(11, 341), Rat(10, 221), Rat(1, 1)>>,
                  <<Rat(0, 1), Rat(0, 1), Rat(0, 1)>>>>)

C7_Witness ==
    /\ opc = "return" /\ ~is_aligned /\ mode = "iou"
    /\ bboxes1 = ExampleA /\ bboxes2 = ExampleB
    /\ RatEq(ious.val.data[1][1], Rat(121, 231))

\* C9: an unknown mode, or is_aligned with sets of different lengths, fails
\* with an error and returns nothing, empty sets included.
C9_ArgumentErrors ==
    (opc # "call"
        /\ (mode \notin {"iou", "iof"} \/ (is_aligned /\ Rows # Cols)))
    => /\ opc = "AssertionError"
       /\ ~ious.set
       /\ ~overlap.set

C9_Witness ==
    /\ opc = "AssertionError" /\ is_aligned /\ mode = "iou"
    /\ Rows = 0 /\ Cols = 3

----------------------------------------------------------------------------
(* Properties of AverageMeter *)

RECURSIVE SumOf(_, _)
\* the sum of component c of the entries of the sequence s
SumOf(s, c) == IF s = << >> THEN 0 ELSE s[1][c] + SumOf(Tail(s), c)

\* C10: get_avg() returns (sum of the s_k since the last reset) / (1 + sum of
\* the n_k since then); sum and count hold those two totals at all times,
\* so reset() restores 0 and 1 and get_avg() leaves them alone.
C10_Average ==
    /\ sum = SumOf(log, 1)
    /\ count = 1 + SumOf(log, 2)
    /\ ret.set => ret.val = Rat(SumOf(log, 1), 1 + SumOf(log, 2))

C10_Witness ==
    /\ ret.set /\ Len(log) = 2 /\ count = 4 /\ sum = 3
    /\ ret.val = Rat(3, 4)

----------------------------------------------------------------------------
(* Properties of img_preprocess2 *)

HOrg == image_shape[1]
WOrg == image_shape[2]
HTarget == target_shape[1]
WTarget == target_shape[2]
\* min(w_target / w_org, h_target / h_org): the one of the two not above
\* the other
MinRatio ==
    CHOOSE r \in {Rat(WTarget, WOrg), Rat(HTarget, HOrg)} :
        RatLe(r, Rat(WTarget, WOrg)) /\ RatLe(r, Rat(HTarget, HOrg))
\* k = x truncated to an integer, for a quotient x = n/d >= 0
TruncatesTo(k, n, d) == k * d <= n /\ n < (k + 1) * d
\* the box (a, b, c, d) of integers
IsBox(out, a, b, c, d) ==
    /\ RatEq(out[1], Rat(a, 1)) /\ RatEq(out[2], Rat(b, 1))
    /\ RatEq(out[3], Rat(c, 1)) /\ RatEq(out[4], Rat(d, 1))

\* C2: with keepratio false the image returned has shape (h_target,
\* w_target, 3) and the boxes are scaled by w_target/w_org and
\* h_target/h_org.  The code returns shape (w_target, h_target, 3).
C2_StretchShape ==
    (ppc # "call" /\ ~keepratio)
    => /\ ppc = "return"
       /\ image.val = <<HTarget, WTarget, 3>>
       /\ correct_box =>
            \A k \in 1..Len(bboxes) :
                /\ RatEq(boxes_out.val[k][1], Rat(bboxes[k][1] * WTarget, WOrg))
                /\ RatEq(boxes_out.val[k][3], Rat(bboxes[k][3] * WTarget, WOrg))
                /\ RatEq(boxes_out.val[k][2], Rat(bboxes[k][2] * HTarget, HOrg))
                /\ RatEq(boxes_out.val[k][4], Rat(bboxes[k][4] * HTarget, HOrg))

\* C3 as claimed: the letterbox path resizes to round(ratio * w_org) by
\* round(ratio * h_org).
C3_ResizeRounded ==
    (ppc = "return" /\ keepratio)
    => /\ resized.val[2] = RoundHalfEven(MinRatio.n * WOrg, MinRatio.d)
       /\ resized.val[1] = RoundHalfEven(MinRatio.n * HOrg, MinRatio.d)

\* C3 as amended: the letterbox path resizes to ratio * w_org by
\* ratio * h_org, each truncated to an integer; when one of them truncates
\* to 0 the resize fails and nothing is returned.
C3_ResizeTruncated ==
    (ppc # "call" /\ keepratio)
    => IF resized.set
       THEN /\ ppc = "return"
            /\ resized.val[2] >= 1 /\ resized.val[1] >= 1
            /\ TruncatesTo(resized.val[2], MinRatio.n * WOrg, MinRatio.d)
            /\ TruncatesTo(resized.val[1], MinRatio.n * HOrg, MinRatio.d)
       ELSE /\ ppc = "cv2.error"
            /\ ~image.set
            /\ \/ TruncatesTo(0, MinRatio.n * WOrg, MinRatio.d)
               \/ TruncatesTo(0, MinRatio.n * HOrg, MinRatio.d)

\* ratio * h_org = 1.5: the height is 1
C3_Witness ==
    /\ ppc = "return" /\ keepratio
    /\ image_shape = <<3, 4, 3>> /\ target_shape = <<2, 2>>
    /\ resized = Some(<<1, 2, 3>>)

\* C8: on the letterbox path with correct_box every box is mapped by
\* x * resize_ratio + dw, y * resize_ratio + dh, where dw, dh are
\* (target - resized) / 2 truncated and are the offsets of the paste; the
\* 100 x 50 example and the target == original case come out as stated.
C8_LetterboxBoxes ==
    (ppc = "return" /\ keepratio /\ correct_box)
    => LET r  == MinRatio
           rh == resized.val[1]
           rw == resized.val[2]
           dw == paste.val.left
           dh == paste.val.top
       IN  /\ TruncatesTo(dw, WTarget - rw, 2)
           /\ TruncatesTo(dh, HTarget - rh, 2)
           /\ paste.val.right = dw + rw /\ paste.val.bottom = dh + rh
           /\ image.val = <<HTarget, WTarget, 3>>
           /\ Len(boxes_out.val) = Len(bboxes)
           /\ \A k \in 1..Len(bboxes) :
                /\ RatEq(boxes_out.val[k][1],
                         Rat(bboxes[k][1] * r.n + dw * r.d, r.d))
                /\ RatEq(boxes_out.val[k][3],
                         Rat(bboxes[k][3] * r.n + dw * r.d, r.d))
                /\ RatEq(boxes_out.val[k][2],
                         Rat(bboxes[k][2] * r.n + dh * r.d, r.d))
                /\ RatEq(boxes_out.val[k][4],
                         Rat(bboxes[k][4] * r.n + dh * r.d, r.d))
           /\ (image_shape = <<50, 100, 3>> /\ target_shape = <<50, 50>>)
                => /\ RatEq(r, Rat(1, 2))
                   /\ rw = 50 /\ rh = 25 /\ dw = 0 /\ dh = 12
                   /\ \A k \in 1..Len(bboxes) :
                        bboxes[k] = ExampleBox
                            => IsBox(boxes_out.val[k], 5, 17, 10, 22)
           /\ (target_shape = <<HOrg, WOrg>>)
                => /\ RatEq(r, Rat(1, 1))
                   /\ dw = 0 /\ dh = 0
                   /\ \A k \in 1..Len(bboxes) :
                        IsBox(boxes_out.val[k], bboxes[k][1], bboxes[k][2],
                              bboxes[k][3], bboxes[k][4])

C8_Witness ==
    /\ ppc = "return" /\ keepratio /\ correct_box
    /\ image_shape = <<50, 100, 3>> /\ target_shape = <<50, 50>>
    /\ bboxes = <<ExampleBox>>
    /\ IsBox(boxes_out.val[1], 5, 17, 10, 22)

Init == InitOverlap
Next == NextOverlap
Spec == SpecOverlap

====
